---------------------------- MODULE Spec2Model ----------------------------
(***************************************************************************)
(* Six-rotor UAV translational dynamics, disturbance observer, FDI         *)
(* compensator and the simulation driver (src/UAV/*.py).                   *)
(*                                                                         *)
(* Numbers.  The program computes in IEEE double precision through numpy.  *)
(* A number is modelled as a pair <<n, d>> of integers:                    *)
(*   d > 0, gcd(n, d) = 1   the real number n/d (exact arithmetic)         *)
(*   <<1, 0>>, <<-1, 0>>    +inf, -inf                                      *)
(*   <<0, 0>>               nan                                            *)
(* so that numpy's division by zero (a warning, then inf or nan, never an  *)
(* exception) and the propagation of inf/nan are part of the model.        *)
(* Rounding error is not modelled.                                         *)
(*                                                                         *)
(* Angles.  An angle is modelled by the pair of its cosine and sine, a     *)
(* rational point of the unit circle; np.cos / np.sin read that pair.      *)
(***************************************************************************)
EXTENDS Integers, Sequences, FiniteSets

VARIABLES
    uav,        \* SixRotorUAV instance: M, G, Gamma, p_const, state, euler
    observer,   \* DisturbanceObserver instance: M, gain_matrix, estimated_disturbance
    fdi,        \* FDICompensator instance: num_rotors, threshold, rotor_states
    hist,       \* the calls made so far, oldest first (arguments, state before, outcome)
    held,       \* the references to returned arrays the caller still holds
    drv         \* run_simulation's locals and program position

vars == <<uav, observer, fdi, hist, held, drv>>

----------------------------------------------------------------------------
(* Numbers *)

Abs(i) == IF i < 0 THEN -i ELSE i

Sgn(i) == IF i < 0 THEN -1 ELSE IF i > 0 THEN 1 ELSE 0

RECURSIVE Gcd(_, _)
Gcd(a, b) == IF b = 0 THEN a ELSE Gcd(b, a % b)

\* The number n/d in lowest terms; d = 0 gives inf, -inf or nan.
Norm(n, d) ==
    IF d = 0 THEN <<Sgn(n), 0>>
    ELSE LET g == Gcd(Abs(n), Abs(d))
         IN  <<Sgn(d) * (n \div g), Abs(d) \div g>>

R(i) == <<i, 1>>

Q(n, d) == Norm(n, d)

NaN == <<0, 0>>

IsFinite(a) == a[2] > 0

RNeg(a) == <<-a[1], a[2]>>

\* IEEE addition: inf + inf = inf, inf - inf = nan, nan + x = nan.
RAdd(a, b) ==
    IF a[2] = 0 /\ b[2] = 0 THEN (IF a = b THEN a ELSE NaN)
    ELSE IF a[2] = 0 THEN a
    ELSE IF b[2] = 0 THEN b
    ELSE LET g == Gcd(a[2], b[2])
         IN  Norm(a[1] * (b[2] \div g) + b[1] * (a[2] \div g), (a[2] \div g) * b[2])

RSub(a, b) == RAdd(a, RNeg(b))

\* IEEE multiplication: 0 * inf = nan.
RMul(a, b) ==
    IF a[2] = 0 \/ b[2] = 0 THEN <<Sgn(a[1]) * Sgn(b[1]), 0>>
    ELSE LET g1 == Gcd(Abs(a[1]), b[2])
             g2 == Gcd(Abs(b[1]), a[2])
         IN  Norm((a[1] \div g1) * (b[1] \div g2), (a[2] \div g2) * (b[2] \div g1))

\* numpy float division: x / 0 = +-inf (x # 0), 0 / 0 = nan, x / inf = 0.
RInv(a) ==
    IF a[2] = 0 THEN (IF a[1] = 0 THEN NaN ELSE R(0))
    ELSE Norm(a[2], a[1])

RDiv(a, b) == RMul(a, RInv(b))

RAbs(a) == <<Abs(a[1]), a[2]>>

\* a < b; any comparison with nan is false.
RLt(a, b) ==
    IF a = NaN \/ b = NaN THEN FALSE
    ELSE IF a[2] = 0 /\ b[2] = 0 THEN a[1] < b[1]
    ELSE a[1] * b[2] < b[1] * a[2]

RLe(a, b) == RLt(a, b) \/ (a = b /\ a # NaN)

\* int(x) of a finite number: truncation toward zero.
Trunc(a) == Sgn(a[1]) * (Abs(a[1]) \div a[2])

----------------------------------------------------------------------------
(* Vectors (numpy 1-d arrays) and matrices (2-d arrays) *)

VAdd(u, v) == [i \in DOMAIN u |-> RAdd(u[i], v[i])]

VSub(u, v) == [i \in DOMAIN u |-> RSub(u[i], v[i])]

VScale(c, v) == [i \in DOMAIN v |-> RMul(c, v[i])]

VDivS(v, c) == [i \in DOMAIN v |-> RDiv(v[i], c)]

\* np.sum: the sum of the first n entries of s, and of all of s.
RECURSIVE SumTo(_, _)
SumTo(s, n) == IF n = 0 THEN R(0) ELSE RAdd(SumTo(s, n - 1), s[n])

SumSeq(s) == SumTo(s, Len(s))

\* np.dot(A, v) for a matrix A given as the sequence of its rows.
Dot(A, v) == [i \in DOMAIN A |-> SumSeq([j \in DOMAIN v |-> RMul(A[i][j], v[j])])]

Zeros(n) == [i \in 1..n |-> R(0)]

Ones(n) == [i \in 1..n |-> R(1)]

Eye3 == << <<R(1), R(0), R(0)>>, <<R(0), R(1), R(0)>>, <<R(0), R(0), R(1)>> >>

Diag3(r) == << <<r[1], R(0), R(0)>>, <<R(0), r[2], R(0)>>, <<R(0), R(0), r[3]>> >>


----------------------------------------------------------------------------
(* Angles: np.cos and np.sin of an angle given by its <<cosine, sine>> pair *)

Cos(a) == a[1]

Sin(a) == a[2]

AngleZero == <<R(1), R(0)>>

AngleQuarterTurn == <<R(0), R(1)>>

\* The angle whose cosine is 4/5 and whose sine is 3/5.
AngleThreeFourFive == <<Q(4, 5), Q(3, 5)>>

----------------------------------------------------------------------------
(* SixRotorUAV (src/UAV/six_rotor_uav.py) *)

\* SixRotorUAV.__init__: state and euler start at zero.
NewUAV(mass, g, air_resistance, p_const) ==
    [M |-> mass, G |-> g, Gamma |-> Diag3(air_resistance), p_const |-> p_const,
     state |-> Zeros(6), euler |-> <<AngleZero, AngleZero, AngleZero>>]

\* set_euler_angles: self.euler = np.array([roll, pitch, yaw])
SetEulerAngles(u, roll, pitch, yaw) == [u EXCEPT !.euler = <<roll, pitch, yaw>>]

\* set_state: self.state = np.array([x, y, z, vx, vy, vz]) (a new array)
SetState(u, s) == [u EXCEPT !.state = s]

\* rotation_matrix: ZYX convention, rows of R.
RotationMatrix(roll, pitch, yaw) ==
    LET cr == Cos(roll)   sr == Sin(roll)
        cp == Cos(pitch)  sp == Sin(pitch)
        cy == Cos(yaw)    sy == Sin(yaw)
    IN  << << RMul(cy, cp),
              RSub(RMul(RMul(cy, sp), sr), RMul(sy, cr)),
              RAdd(RMul(RMul(cy, sp), cr), RMul(sy, sr)) >>,
           << RMul(sy, cp),
              RAdd(RMul(RMul(sy, sp), sr), RMul(cy, cr)),
              RSub(RMul(RMul(sy, sp), cr), RMul(cy, sr)) >>,
           << RNeg(sp), RMul(cp, sr), RMul(cp, cr) >> >>

\* get_thrust_direction: R[:, 2], the third column.
GetThrustDirection(u) ==
    LET Rm == RotationMatrix(u.euler[1], u.euler[2], u.euler[3])
    IN  <<Rm[1][3], Rm[2][3], Rm[3][3]>>

\* compute_total_thrust: p_const * np.sum(rotor_speeds**2)
ComputeTotalThrust(u, rotor_speeds) ==
    RMul(u.p_const, SumSeq([k \in DOMAIN rotor_speeds |-> RMul(rotor_speeds[k], rotor_speeds[k])]))

\* The velocity part state[3:] and the position part state[:3].
VelocityOf(state) == <<state[4], state[5], state[6]>>

PositionOf(state) == <<state[1], state[2], state[3]>>

\* update_dynamics, line 143: the acceleration of the step.
Acceleration(u, rotor_speeds, disturbance) ==
    LET P_bar      == ComputeTotalThrust(u, rotor_speeds)
        thrust_dir == GetThrustDirection(u)
        velocity   == VelocityOf(u.state)
    IN  VAdd(VSub(VSub(VScale(RDiv(P_bar, u.M), thrust_dir),
                       <<R(0), R(0), u.G>>),
                  VDivS(Dot(u.Gamma, velocity), u.M)),
             disturbance)

\* A plausible slip: the velocity is updated first and the position then
\* reads it through the view state[3:] (semi-implicit Euler).
EulerStepVelocityFirst(state, acceleration, dt) ==
    LET v1 == VAdd(VelocityOf(state), VScale(dt, acceleration))
    IN  VAdd(PositionOf(state), VScale(dt, v1)) \o v1

\* update_dynamics, lines 146-147: state[:3] += velocity * dt, then
\* state[3:] += acceleration * dt.  velocity is a view of state[3:], read
\* by the first statement before the second writes it.
EulerStep(state, acceleration, dt) ==
    LET velocity == VelocityOf(state)
        position == VAdd(PositionOf(state), VScale(dt, velocity))
    IN  position \o VAdd(velocity, VScale(dt, acceleration))

\* update_dynamics: the instance after the call; the call returns self.state.
UpdateDynamics(u, rotor_speeds, dt, disturbance) ==
    [u EXCEPT !.state = EulerStep(u.state, Acceleration(u, rotor_speeds, disturbance), dt)]

----------------------------------------------------------------------------
(* DisturbanceObserver (src/UAV/disturbance_observer.py) *)

\* The gravity vector written into update (line 44).
ObserverGravity == <<R(0), R(0), Q(981, 100)>>

\* DisturbanceObserver.__init__: gain_matrix defaults to np.eye(3).
NewObserver(mass, gain_matrix) ==
    [M |-> mass, gain_matrix |-> gain_matrix, estimated_disturbance |-> Zeros(3)]

\* update, lines 41-50: error = velocity / dt - nominal_accel.
ObserverError(o, state, thrust_direction, total_thrust, dt) ==
    LET velocity      == VelocityOf(state)
        nominal_accel == VSub(VScale(RDiv(total_thrust, o.M), thrust_direction),
                              ObserverGravity)
        actual_accel  == VDivS(velocity, dt)
    IN  VSub(actual_accel, nominal_accel)

\* update, line 51: the increment dt * np.dot(gain_matrix, error).
ObserverIncrement(o, state, thrust_direction, total_thrust, dt) ==
    VScale(dt, Dot(o.gain_matrix, ObserverError(o, state, thrust_direction, total_thrust, dt)))

\* A plausible slip: "=" for "+=", the estimate forgets the earlier calls.
AccumulateOverwrite(estimate, increment) == increment

\* update, line 51: self.estimated_disturbance += increment (in place).
Accumulate(estimate, increment) == VAdd(estimate, increment)

\* update: the instance after the call; the call returns self.estimated_disturbance.
ObserverUpdate(o, state, thrust_direction, total_thrust, dt) ==
    [o EXCEPT !.estimated_disturbance =
        Accumulate(@, ObserverIncrement(o, state, thrust_direction, total_thrust, dt))]

----------------------------------------------------------------------------
(* FDICompensator (src/UAV/fdi_compensator.py) *)

\* FDICompensator.__init__: rotor_states = np.ones(num_rotors).
NewFDI(num_rotors, threshold) ==
    [num_rotors |-> num_rotors, threshold |-> threshold, rotor_states |-> Ones(num_rotors)]

\* numpy broadcasting of two 1-d arrays: equal lengths, or one of length 1.
Broadcastable(a, b) == Len(a) = Len(b) \/ Len(a) = 1 \/ Len(b) = 1

BroadcastLen(a, b) == IF Len(a) = 1 THEN Len(b) ELSE Len(a)

BroadcastAt(a, k) == IF Len(a) = 1 THEN a[1] ELSE a[k]

\* A plausible slip: "<=" for "<".
IsHealthyInclusive(error, threshold) == RLe(error, threshold)

\* detect_faults, line 28: error < self.threshold
IsHealthy(error, threshold) == RLt(error, threshold)

\* detect_faults, lines 27-28, when the operands broadcast:
\* (np.abs(rotor_speeds - expected_speeds) < threshold).astype(float)
DetectFaultsStates(f, rotor_speeds, expected_speeds) ==
    [k \in 1..BroadcastLen(rotor_speeds, expected_speeds) |->
        IF IsHealthy(RAbs(RSub(BroadcastAt(rotor_speeds, k), BroadcastAt(expected_speeds, k))),
                     f.threshold)
        THEN R(1) ELSE R(0)]

\* A plausible slip: the thrust is split over all rotors, not the healthy ones.
BaseThrustAllRotors(f, desired_thrust, rotor_states) == RDiv(desired_thrust, R(f.num_rotors))

\* compensate_thrust, line 47: desired_thrust / healthy_rotors
BaseThrust(f, desired_thrust, rotor_states) == RDiv(desired_thrust, SumSeq(rotor_states))

\* compensate_thrust: the returned array; self is not changed.
CompensateThrust(f, desired_thrust, rotor_states) ==
    IF SumSeq(rotor_states) = R(0)
    THEN Zeros(f.num_rotors)
    ELSE [k \in DOMAIN rotor_states |->
            IF rotor_states[k] = R(1) THEN BaseThrust(f, desired_thrust, rotor_states) ELSE R(0)]


----------------------------------------------------------------------------
(* The components under an arbitrary caller: inputs and bounds *)

\* The number of calls a behaviour makes.
MaxCalls == 3

\* Construction parameters: <<mass, g, air_resistance, p_const>> of the UAV and
\* <<mass, gain_matrix>> of the observer.
GainCoupled == << <<R(2), R(0), R(0)>>, <<R(0), R(1), R(1)>>, <<R(0), R(0), Q(1, 2)>> >>

Configs ==
    { [mass |-> R(1), g |-> Q(981, 100), air |-> <<Q(1, 10), Q(1, 10), Q(1, 10)>>,
       p_const |-> R(1), obs_mass |-> R(1), gain |-> Eye3],
      [mass |-> R(2), g |-> Q(162, 100), air |-> <<R(0), R(0), R(0)>>,
       p_const |-> Q(1, 20), obs_mass |-> R(2), gain |-> GainCoupled] }

SpeedChoices == { Zeros(6), <<R(1), R(2), R(0), R(1), R(0), R(2)>> }

DtChoices == { Q(1, 2), R(0), Q(-1, 2) }

\* The wind of run_simulation, and no disturbance.
DisturbanceChoices == { Zeros(3), <<Q(1, 2), Q(3, 10), R(0)>> }

ObserverDtChoices == { Q(1, 2), R(0) }

AttitudeChoices == { <<AngleThreeFourFive, AngleQuarterTurn, AngleThreeFourFive>> }

StateChoices == { <<R(0), R(0), R(10), R(1), R(0), R(-2)>> }

\* The caller holds no reference to a returned array.
NoRef == [ref |-> "none", val |-> <<>>]

NoRefs == [state |-> NoRef, est |-> NoRef, health |-> NoRef]

\* What the caller reads through a reference it holds: the component's own
\* array when the reference is to it ("internal"), else the array it was
\* left with when the component rebound its attribute ("detached").
Seen(slot, internal) ==
    IF slot.ref = "internal" THEN internal
    ELSE IF slot.ref = "detached" THEN slot.val
    ELSE <<>>

SeenNow ==
    [state  |-> Seen(held.state, uav.state),
     est    |-> Seen(held.est, observer.estimated_disturbance),
     health |-> Seen(held.health, fdi.rotor_states)]

\* run_simulation is not running.
DrvIdle == [pc |-> "idle"]

\* The record of one call: its arguments and the stored values before it.
\* ret is the returned array, <<>> when the call returns None or raises.
Call(op, args, outcome, ret) ==
    [op |-> op, args |-> args, outcome |-> outcome, ret |-> ret,
     state_before |-> uav.state,
     estimate_before |-> observer.estimated_disturbance,
     rotor_states_before |-> fdi.rotor_states,
     seen_before |-> SeenNow]

Last == hist[Len(hist)]

Init ==
    /\ \E c \in Configs :
          /\ uav = NewUAV(c.mass, c.g, c.air, c.p_const)
          /\ observer = NewObserver(c.obs_mass, c.gain)
    /\ fdi = NewFDI(6, Q(1, 10))
    /\ hist = <<>>
    /\ held = NoRefs
    /\ drv = DrvIdle

\* uav.set_euler_angles(roll, pitch, yaw)
CallSetEulerAngles ==
    /\ Len(hist) < MaxCalls
    /\ \E e \in AttitudeChoices :
          /\ uav' = SetEulerAngles(uav, e[1], e[2], e[3])
          /\ hist' = Append(hist, Call("set_euler_angles", [euler |-> e], "returned", <<>>))
    /\ UNCHANGED <<observer, fdi, held, drv>>

\* uav.set_state(x, y, z, vx, vy, vz)
CallSetState ==
    /\ Len(hist) < MaxCalls
    /\ \E s \in StateChoices :
          /\ uav' = SetState(uav, s)
          /\ hist' = Append(hist, Call("set_state", [state |-> s], "returned", <<>>))
    /\ UNCHANGED <<observer, fdi, held, drv>>

\* uav.update_dynamics(rotor_speeds, dt, disturbance): no branch of it raises.
CallUpdateDynamics ==
    /\ Len(hist) < MaxCalls
    /\ \E rotor_speeds \in SpeedChoices, dt \in DtChoices, disturbance \in DisturbanceChoices :
          /\ uav' = UpdateDynamics(uav, rotor_speeds, dt, disturbance)
          /\ hist' = Append(hist, Call("update_dynamics",
                                       [rotor_speeds |-> rotor_speeds, dt |-> dt,
                                        disturbance |-> disturbance],
                                       "returned", uav'.state))
    /\ UNCHANGED <<observer, fdi, held, drv>>

\* observer.update(state, thrust_direction, total_thrust, dt) as the driver
\* calls it: the state and the thrust direction are the UAV's, the total
\* thrust that of some rotor command.  No branch of it raises.
CallObserverUpdate ==
    /\ Len(hist) < MaxCalls
    /\ \E rotor_speeds \in SpeedChoices, dt \in ObserverDtChoices :
          LET state            == uav.state
              thrust_direction == GetThrustDirection(uav)
              total_thrust     == ComputeTotalThrust(uav, rotor_speeds)
          IN  /\ observer' = ObserverUpdate(observer, state, thrust_direction, total_thrust, dt)
              /\ hist' = Append(hist, Call("observer_update",
                                           [state |-> state, thrust_direction |-> thrust_direction,
                                            total_thrust |-> total_thrust, dt |-> dt],
                                           "returned", observer'.estimated_disturbance))
    /\ UNCHANGED <<uav, fdi, held, drv>>

Next ==
    \/ CallSetEulerAngles
    \/ CallSetState
    \/ CallUpdateDynamics
    \/ CallObserverUpdate

Spec == Init /\ [][Next]_vars


----------------------------------------------------------------------------
(* Properties of SixRotorUAV and DisturbanceObserver (under Spec) *)

Positive(a) == RLt(R(0), a)

\* C1: one update_dynamics call with dt > 0 is one forward-Euler step from the
\* state (p, v) before the call: accel = (p_const * sum(s_k^2) / M) * thrustDirection
\* - (0,0,G) - (Gamma*v)/M + w, position = p + v*dt with the velocity v of
\* before the step, velocity = v + accel*dt.  From rest, with zero rotor
\* speeds and zero air resistance, the velocity is (0, 0, -G*dt) and the
\* position is unchanged.
C1_ForwardEulerStep ==
    (hist # <<>> /\ Last.op = "update_dynamics" /\ Positive(Last.args.dt)) =>
        LET p      == PositionOf(Last.state_before)
            v      == VelocityOf(Last.state_before)
            s      == Last.args.rotor_speeds
            dt     == Last.args.dt
            w      == Last.args.disturbance
            thrust == RMul(uav.p_const, SumSeq([k \in DOMAIN s |-> RMul(s[k], s[k])]))
            dir    == GetThrustDirection(uav)
            grav   == <<R(0), R(0), uav.G>>
            accel  == [i \in 1..3 |->
                         RAdd(RSub(RSub(RMul(RDiv(thrust, uav.M), dir[i]), grav[i]),
                                   RDiv(RMul(uav.Gamma[i][i], v[i]), uav.M)),
                              w[i])]
        IN  /\ PositionOf(uav.state) = [i \in 1..3 |-> RAdd(p[i], RMul(v[i], dt))]
            /\ VelocityOf(uav.state) = [i \in 1..3 |-> RAdd(v[i], RMul(accel[i], dt))]
            /\ (/\ Last.state_before = Zeros(6)
                /\ s = Zeros(6)
                /\ uav.Gamma = Diag3(Zeros(3))
                /\ w = Zeros(3))
               => /\ VelocityOf(uav.state) = <<R(0), R(0), RNeg(RMul(uav.G, dt))>>
                  /\ PositionOf(uav.state) = p

\* A step with thrust, drag, wind and a moving vehicle has been taken.
C1_Witness ==
    /\ hist # <<>>
    /\ Last.op = "update_dynamics"
    /\ Positive(Last.args.dt)
    /\ VelocityOf(Last.state_before) = <<R(1), R(0), R(-2)>>
    /\ uav.Gamma # Diag3(Zeros(3))
    /\ Last.args.rotor_speeds # Zeros(6)
    /\ Last.args.disturbance # Zeros(3)
    /\ PositionOf(uav.state) = <<Q(1, 2), R(0), R(9)>>

\* The observer updates among the calls made, oldest first.
IsObserverUpdate(c) == c.op = "observer_update"

ObserverCalls == SelectSeq(hist, IsObserverUpdate)

\* The nominal acceleration of an observer update, from its arguments.
NominalAccelOf(c) ==
    VSub(VScale(RDiv(c.args.total_thrust, observer.M), c.args.thrust_direction),
         ObserverGravity)

\* The sum, over the observer updates among the first n calls, of
\* dt * gain_matrix * (velocity/dt - nominal_accel).
RECURSIVE SumOfIncrements(_)
SumOfIncrements(n) ==
    IF n = 0 THEN Zeros(3)
    ELSE IF ~IsObserverUpdate(hist[n]) THEN SumOfIncrements(n - 1)
    ELSE LET c == hist[n]
         IN  VAdd(SumOfIncrements(n - 1),
                  VScale(c.args.dt,
                         Dot(observer.gain_matrix,
                             VSub(VDivS(VelocityOf(c.args.state), c.args.dt),
                                  NominalAccelOf(c)))))

ZeroError(c) == VDivS(VelocityOf(c.args.state), c.args.dt) = NominalAccelOf(c)

\* C4: the disturbance estimate starts at (0,0,0) and is never reset: after
\* any sequence of update calls it is the sum over those calls of
\* dt_i * gain_matrix * (velocity_i/dt_i - nominal_accel_i); if velocity/dt
\* equals the nominal acceleration in every call, the estimate is (0,0,0).
C4_EstimateIsSumOfIncrements ==
    /\ observer.estimated_disturbance = SumOfIncrements(Len(hist))
    /\ (\A i \in DOMAIN hist : IsObserverUpdate(hist[i]) => ZeroError(hist[i]))
          => observer.estimated_disturbance = Zeros(3)

\* Two updates have accumulated: the first with zero error on a moving
\* vehicle, which left the estimate at zero, the second with a finite error.
C4_Witness ==
    /\ Len(ObserverCalls) = 2
    /\ ZeroError(ObserverCalls[1])
    /\ VelocityOf(ObserverCalls[1].args.state) # Zeros(3)
    /\ ObserverCalls[2].estimate_before = Zeros(3)
    /\ ~ZeroError(ObserverCalls[2])
    /\ \A i \in 1..3 : IsFinite(observer.estimated_disturbance[i])
    /\ observer.estimated_disturbance # Zeros(3)

\* C6: update_dynamics called with dt <= 0 is rejected with an error and
\* leaves the vehicle state as it was before the call.
C6_NonPositiveDtRejected ==
    (hist # <<>> /\ Last.op = "update_dynamics" /\ RLe(Last.args.dt, R(0))) =>
        /\ Last.outcome = "raised"
        /\ uav.state = Last.state_before

\* C7: observer update called with dt == 0 fails, and the stored estimate is
\* the one of before the call (not inf or nan).
C7_ZeroDtFailsCleanly ==
    (hist # <<>> /\ Last.op = "observer_update" /\ Last.args.dt = R(0)) =>
        /\ Last.outcome = "raised"
        /\ observer.estimated_disturbance = Last.estimate_before

\* C10: for every gravity value of the vehicle, equal masses, a vehicle at
\* rest and a fresh observer: one update_dynamics step (dt > 0, disturbance w)
\* followed by one observer update on the resulting state, with the same
\* rotor command and dt, leaves the estimate at dt * gain_matrix * w
\* (at (0,0,0) when w is zero).
C10_FirstTickEstimate ==
    LET n == Len(hist)
    IN  (/\ n >= 2
         /\ hist[n - 1].op = "update_dynamics"
         /\ hist[n - 1].state_before = Zeros(6)
         /\ Positive(hist[n - 1].args.dt)
         /\ hist[n].op = "observer_update"
         /\ hist[n].estimate_before = Zeros(3)
         /\ hist[n].args.state = uav.state
         /\ hist[n].args.dt = hist[n - 1].args.dt
         /\ hist[n].args.total_thrust = ComputeTotalThrust(uav, hist[n - 1].args.rotor_speeds)
         /\ observer.M = uav.M)
        => observer.estimated_disturbance
             = VScale(hist[n].args.dt, Dot(observer.gain_matrix, hist[n - 1].args.disturbance))


----------------------------------------------------------------------------
(* FDICompensator under an arbitrary caller.  The compensator keeps nothing *)
(* of a call but rotor_states, so hist holds the most recent call only.     *)

\* <<num_rotors, threshold>>: the defaults, and a smaller compensator.
FDIConfigs == { <<6, Q(1, 10)>>, <<3, R(1)>> }

\* The rotors whose measured speed deviates from the expected speed 1.
DeviatingSets(n) == { {}, {1}, {n}, 1..n, ((n \div 2) + 1)..n }

Deviations == { Q(9, 10), Q(21, 20), R(2) }

MeasuredChoices(n) ==
    { [k \in 1..n |-> IF k \in S THEN d ELSE R(1)] : S \in DeviatingSets(n), d \in Deviations }
        \cup { <<R(2)>>, Ones(n - 1) }

ExpectedChoices(n) == { Ones(n), <<R(1)>>, Ones(n - 1) }

DesiredThrustChoices == { R(300), R(0), R(-7) }

HealthVectors(n) == [1..n -> {R(0), R(1)}]

InitFDI ==
    /\ uav = NewUAV(R(1), Q(981, 100), <<Q(1, 10), Q(1, 10), Q(1, 10)>>, R(1))
    /\ observer = NewObserver(R(1), Eye3)
    /\ \E c \in FDIConfigs : fdi = NewFDI(c[1], c[2])
    /\ hist = <<>>
    /\ held = NoRefs
    /\ drv = DrvIdle

\* fdi.detect_faults(rotor_speeds, expected_speeds): the subtraction raises
\* ValueError when the operands do not broadcast, before anything is stored;
\* otherwise the new array is stored and returned.
CallDetectFaults ==
    /\ \E rotor_speeds \in MeasuredChoices(fdi.num_rotors),
          expected_speeds \in ExpectedChoices(fdi.num_rotors) :
          LET args == [rotor_speeds |-> rotor_speeds, expected_speeds |-> expected_speeds]
          IN  IF Broadcastable(rotor_speeds, expected_speeds)
              THEN /\ fdi' = [fdi EXCEPT !.rotor_states =
                                 DetectFaultsStates(fdi, rotor_speeds, expected_speeds)]
                   /\ hist' = <<Call("detect_faults", args, "returned", fdi'.rotor_states)>>
              ELSE /\ fdi' = fdi
                   /\ hist' = <<Call("detect_faults", args, "raised", <<>>)>>
    /\ UNCHANGED <<uav, observer, held, drv>>

\* fdi.compensate_thrust(desired_thrust, rotor_states): rotor_states is the
\* stored health or any 0/1 vector; self is not changed.
CallCompensateThrust ==
    /\ \E desired_thrust \in DesiredThrustChoices,
          rotor_states \in HealthVectors(fdi.num_rotors) \cup {fdi.rotor_states} :
          hist' = <<Call("compensate_thrust",
                         [desired_thrust |-> desired_thrust, rotor_states |-> rotor_states],
                         "returned", CompensateThrust(fdi, desired_thrust, rotor_states))>>
    /\ UNCHANGED <<uav, observer, fdi, held, drv>>

NextFDI ==
    \/ CallDetectFaults
    \/ CallCompensateThrust

SpecFDI == InitFDI /\ [][NextFDI]_vars

----------------------------------------------------------------------------
(* Properties of FDICompensator (under SpecFDI) *)

\* C2: after a detect_faults call on num_rotors measured and expected speeds,
\* whatever calls came before, the returned and the stored health vector are,
\* rotor by rotor, 1 if |measured_k - expected_k| < threshold and 0 otherwise;
\* an error equal to the threshold gives 0, and no earlier flag survives.
C2_DetectFaultsOverwrites ==
    (/\ hist # <<>>
     /\ Last.op = "detect_faults"
     /\ Len(Last.args.rotor_speeds) = fdi.num_rotors
     /\ Len(Last.args.expected_speeds) = fdi.num_rotors) =>
        /\ Last.outcome = "returned"
        /\ Last.ret = fdi.rotor_states
        /\ DOMAIN fdi.rotor_states = 1..fdi.num_rotors
        /\ \A k \in 1..fdi.num_rotors :
              LET diff == RSub(Last.args.rotor_speeds[k], Last.args.expected_speeds[k])
                  err  == IF diff[1] < 0 THEN RNeg(diff) ELSE diff
              IN  /\ fdi.rotor_states[k] = (IF RLt(err, fdi.threshold) THEN R(1) ELSE R(0))
                  /\ err = fdi.threshold => fdi.rotor_states[k] = R(0)

\* A detection in which a rotor flagged faulty by the call before is healthy
\* again and another rotor, whose error equals the threshold, is faulty.
C2_Witness ==
    /\ hist # <<>>
    /\ Last.op = "detect_faults"
    /\ Last.outcome = "returned"
    /\ Len(Last.args.rotor_speeds) = fdi.num_rotors
    /\ Len(Last.args.expected_speeds) = fdi.num_rotors
    /\ Len(Last.rotor_states_before) = fdi.num_rotors
    /\ \E k \in 1..fdi.num_rotors :
          /\ Last.rotor_states_before[k] = R(0)
          /\ fdi.rotor_states[k] = R(1)
    /\ \E k \in 1..fdi.num_rotors :
          /\ RAbs(RSub(Last.args.rotor_speeds[k], Last.args.expected_speeds[k])) = fdi.threshold
          /\ fdi.rotor_states[k] = R(0)

\* C3: for every desired thrust and every 0/1 health vector of length
\* num_rotors, compensate_thrust returns num_rotors values: 0 for a faulty
\* rotor and desired_thrust / healthyCount for a healthy one (they sum to
\* desired_thrust when a rotor is healthy), and all zeros when none is.
C3_EqualSplit ==
    (/\ hist # <<>>
     /\ Last.op = "compensate_thrust"
     /\ Last.args.rotor_states \in HealthVectors(fdi.num_rotors)) =>
        LET health  == Last.args.rotor_states
            healthy == { k \in 1..fdi.num_rotors : health[k] = R(1) }
            count   == Cardinality(healthy)
        IN  /\ Last.outcome = "returned"
            /\ DOMAIN Last.ret = 1..fdi.num_rotors
            /\ count = 0 => \A k \in 1..fdi.num_rotors : Last.ret[k] = R(0)
            /\ count > 0 =>
                  /\ \A k \in 1..fdi.num_rotors :
                        Last.ret[k] = (IF k \in healthy
                                       THEN Q(Last.args.desired_thrust[1],
                                              Last.args.desired_thrust[2] * count)
                                       ELSE R(0))
                  /\ SumSeq(Last.ret) = Last.args.desired_thrust

\* Six rotors, the last three faulty, a desired thrust of 300.
C3_Witness ==
    /\ hist # <<>>
    /\ Last.op = "compensate_thrust"
    /\ fdi.num_rotors = 6
    /\ Last.args.desired_thrust = R(300)
    /\ Last.args.rotor_states = <<R(1), R(1), R(1), R(0), R(0), R(0)>>
    /\ Last.ret = <<R(100), R(100), R(100), R(0), R(0), R(0)>>

\* C8: the stored health vector always has length num_rotors, and a
\* detect_faults call whose speed sequences differ in length from each other
\* or from num_rotors raises and leaves the stored health vector unchanged.
C8_HealthLengthFixed ==
    /\ Len(fdi.rotor_states) = fdi.num_rotors
    /\ (/\ hist # <<>>
        /\ Last.op = "detect_faults"
        /\ \/ Len(Last.args.rotor_speeds) # Len(Last.args.expected_speeds)
           \/ Len(Last.args.rotor_speeds) # fdi.num_rotors) =>
           /\ Last.outcome = "raised"
           /\ fdi.rotor_states = Last.rotor_states_before


----------------------------------------------------------------------------
(* The components under a caller that keeps the arrays they return.        *)
(* update_dynamics returns self.state, update returns                      *)
(* self.estimated_disturbance and detect_faults returns self.rotor_states: *)
(* the component's own array, not a copy.  The caller keeps the first      *)
(* array each component returns and may write into it.                     *)

AliasDt == Q(1, 2)

InitAlias ==
    /\ \E c \in Configs :
          /\ uav = NewUAV(c.mass, c.g, c.air, c.p_const)
          /\ observer = NewObserver(c.obs_mass, c.gain)
    /\ fdi = NewFDI(6, Q(1, 10))
    /\ hist = <<>>
    /\ held = NoRefs
    /\ drv = DrvIdle

\* The slot after a call that returned the component's own array: the caller
\* keeps it (take) when it holds none yet.
Keep(slot, take) ==
    IF take /\ slot.ref = "none" THEN [ref |-> "internal", val |-> <<>>] ELSE slot

\* The slot after the component bound its attribute to a new array: a
\* reference to the old array no longer follows the component.
Rebound(slot, old) ==
    IF slot.ref = "internal" THEN [ref |-> "detached", val |-> old] ELSE slot

\* s = uav.update_dynamics(...): the update is in place, s is uav.state.
AliasUpdateDynamics ==
    /\ Len(hist) < MaxCalls
    /\ \E rotor_speeds \in SpeedChoices, take \in BOOLEAN :
          /\ uav' = UpdateDynamics(uav, rotor_speeds, AliasDt, Zeros(3))
          /\ hist' = Append(hist, Call("update_dynamics",
                                       [rotor_speeds |-> rotor_speeds, dt |-> AliasDt,
                                        disturbance |-> Zeros(3)],
                                       "returned", uav'.state))
          /\ held' = [held EXCEPT !.state = Keep(@, take)]
    /\ UNCHANGED <<observer, fdi, drv>>

\* uav.set_state(...): self.state is bound to a new array.
AliasSetState ==
    /\ Len(hist) < MaxCalls
    /\ \E s \in StateChoices :
          /\ uav' = SetState(uav, s)
          /\ hist' = Append(hist, Call("set_state", [state |-> s], "returned", <<>>))
    /\ held' = [held EXCEPT !.state = Rebound(@, uav.state)]
    /\ UNCHANGED <<observer, fdi, drv>>

\* e = observer.update(...): the update is in place, e is the stored estimate.
AliasObserverUpdate ==
    /\ Len(hist) < MaxCalls
    /\ \E rotor_speeds \in SpeedChoices, take \in BOOLEAN :
          LET state            == uav.state
              thrust_direction == GetThrustDirection(uav)
              total_thrust     == ComputeTotalThrust(uav, rotor_speeds)
          IN  /\ observer' = ObserverUpdate(observer, state, thrust_direction,
                                            total_thrust, AliasDt)
              /\ hist' = Append(hist, Call("observer_update",
                                           [state |-> state, thrust_direction |-> thrust_direction,
                                            total_thrust |-> total_thrust, dt |-> AliasDt],
                                           "returned", observer'.estimated_disturbance))
              /\ held' = [held EXCEPT !.est = Keep(@, take)]
    /\ UNCHANGED <<uav, fdi, drv>>

\* h = fdi.detect_faults(...): rotor_states is bound to a new array, h is it.
AliasDetectFaults ==
    /\ Len(hist) < MaxCalls
    /\ \E rotor_speeds \in { Ones(fdi.num_rotors), [k \in 1..fdi.num_rotors |-> R(k)] },
          take \in BOOLEAN :
          LET expected_speeds == Ones(fdi.num_rotors)
          IN  /\ fdi' = [fdi EXCEPT !.rotor_states =
                            DetectFaultsStates(fdi, rotor_speeds, expected_speeds)]
              /\ hist' = Append(hist, Call("detect_faults",
                                           [rotor_speeds |-> rotor_speeds,
                                            expected_speeds |-> expected_speeds],
                                           "returned", fdi'.rotor_states))
              /\ held' = [held EXCEPT !.health = Keep(Rebound(@, fdi.rotor_states), take)]
    /\ UNCHANGED <<uav, observer, drv>>

\* The caller writes held[0] = 7 into an array it holds.  A write through a
\* reference to the component's own array is a write to the component.
CallerWrite ==
    /\ Len(hist) < MaxCalls
    /\ \E a \in {"state", "est", "health"} :
          /\ held[a].ref # "none"
          /\ hist' = Append(hist, Call("caller_write", [array |-> a, value |-> R(7)],
                                       "returned", <<>>))
          /\ IF held[a].ref = "detached"
             THEN /\ held' = [held EXCEPT ![a].val[1] = R(7)]
                  /\ UNCHANGED <<uav, observer, fdi>>
             ELSE /\ uav' = IF a = "state" THEN [uav EXCEPT !.state[1] = R(7)] ELSE uav
                  /\ observer' = IF a = "est"
                                 THEN [observer EXCEPT !.estimated_disturbance[1] = R(7)]
                                 ELSE observer
                  /\ fdi' = IF a = "health" THEN [fdi EXCEPT !.rotor_states[1] = R(7)] ELSE fdi
                  /\ UNCHANGED held
    /\ UNCHANGED drv

NextAlias ==
    \/ AliasUpdateDynamics
    \/ AliasSetState
    \/ AliasObserverUpdate
    \/ AliasDetectFaults
    \/ CallerWrite

SpecAlias == InitAlias /\ [][NextAlias]_vars

\* C9: returned values are not aliased to the components' state: a caller's
\* write into a returned array leaves the stored vehicle state, disturbance
\* estimate and rotor health unchanged, and an array returned by an earlier
\* call is not changed by a later call on the component.
C9_ReturnedValuesNotAliased ==
    hist # <<>> =>
        /\ Last.op = "caller_write" =>
              /\ uav.state = Last.state_before
              /\ observer.estimated_disturbance = Last.estimate_before
              /\ fdi.rotor_states = Last.rotor_states_before
        /\ Last.op # "caller_write" =>
              \A a \in {"state", "est", "health"} :
                 Last.seen_before[a] # <<>> => SeenNow[a] = Last.seen_before[a]


----------------------------------------------------------------------------
(* run_simulation (src/UAV/simulation.py)                                  *)
(*                                                                         *)
(* The run's constants are those of the source, except the attitude: the   *)
(* cosines and sines of (0.1, 0.05, 0.2) rad are irrational, and the three *)
(* nonzero angles of DrvAttitude stand for them.  With the source's        *)
(* constants (thrust 48000, drag 0.1/6 per tick) exact arithmetic outgrows *)
(* TLC's 32-bit integers in the third tick, so SimRuns holds runs of at    *)
(* most two ticks.                                                         *)

\* <<total_time, dt>> of the runs modelled: int(total_time / dt) is 0, 1 or 2.
SimRuns ==
    { <<R(1), R(2)>>,
      <<R(1), R(1)>>, <<R(3), R(2)>>, <<R(3), R(3)>>, <<Q(1, 2), Q(1, 2)>>, <<Q(3, 2), R(1)>>,
      <<R(2), R(1)>>, <<R(1), Q(1, 2)>>, <<Q(1, 2), Q(1, 4)>>, <<R(4), R(2)>>, <<R(5), R(2)>>,
      <<R(6), R(3)>> }

DrvAttitude == <<AngleThreeFourFive, AngleThreeFourFive, AngleThreeFourFive>>

\* np.linspace(0, stop, num): num evenly spaced samples, the last one stop.
Linspace(stop, num) ==
    [k \in 1..num |-> IF num = 1 THEN R(0) ELSE RDiv(RMul(R(k - 1), stop), R(num - 1))]

\* The lines 21-39, before the loop: the state the loop starts in.
InitDriver ==
    /\ \E run \in SimRuns :
          LET total_time == run[1]
              dt         == run[2]
              time_steps == Trunc(RDiv(total_time, dt))
          IN  drv = [pc |-> "for", total_time |-> total_time, dt |-> dt,
                     time_steps |-> time_steps,
                     times |-> Linspace(total_time, time_steps),
                     base_rotor_speeds |-> [k \in 1..6 |-> R(400)],
                     disturbance_time |-> R(1),
                     k |-> 0, disturbance |-> Zeros(3),
                     thrust_dir |-> <<>>, total_thrust |-> R(0),
                     states |-> <<>>, disturbances |-> <<>>,
                     result |-> <<>>]
    /\ uav = SetEulerAngles(NewUAV(R(6), Q(981, 100), <<Q(1, 10), Q(1, 10), Q(1, 10)>>, Q(1, 20)),
                            DrvAttitude[1], DrvAttitude[2], DrvAttitude[3])
    /\ observer = NewObserver(R(6), Eye3)
    /\ fdi = NewFDI(6, Q(1, 10))
    /\ hist = <<>>
    /\ held = NoRefs

\* A plausible slip: the disturbance is estimated before the dynamics are
\* updated, from the state of before the step.
DrvAfterObserverFirst(pc) ==
    CASE pc = "for"                  -> "get_thrust_direction"
      [] pc = "get_thrust_direction" -> "compute_total_thrust"
      [] pc = "compute_total_thrust" -> "observer_update"
      [] pc = "observer_update"      -> "update_dynamics"
      [] pc = "update_dynamics"      -> "store"
      [] pc = "store"                -> "for"

\* The order of the statements of the loop body (lines 42-59).
DrvAfter(pc) ==
    CASE pc = "for"                  -> "update_dynamics"
      [] pc = "update_dynamics"      -> "get_thrust_direction"
      [] pc = "get_thrust_direction" -> "compute_total_thrust"
      [] pc = "compute_total_thrust" -> "observer_update"
      [] pc = "observer_update"      -> "store"
      [] pc = "store"                -> "for"

\* for t in times (lines 42-47): the next t and its disturbance, or, past
\* the last t, the return of the result (lines 61-65).
DrvFor ==
    /\ drv.pc = "for"
    /\ \/ /\ drv.k < Len(drv.times)
          /\ drv' = [drv EXCEPT !.k = @ + 1,
                                !.disturbance =
                                    IF RLe(drv.disturbance_time, drv.times[drv.k + 1])
                                    THEN <<Q(1, 2), Q(3, 10), R(0)>>
                                    ELSE Zeros(3),
                                !.pc = DrvAfter("for")]
       \/ /\ drv.k >= Len(drv.times)
          /\ drv' = [drv EXCEPT !.pc = "done",
                                !.result = [times |-> drv.times, states |-> drv.states,
                                            disturbances |-> drv.disturbances]]
    /\ UNCHANGED <<uav, observer, fdi, hist, held>>

\* state = uav.update_dynamics(base_rotor_speeds, dt, disturbance) (line 50).
\* state is uav.state itself: the local is read as uav.state below.
DrvUpdateDynamics ==
    /\ drv.pc = "update_dynamics"
    /\ uav' = UpdateDynamics(uav, drv.base_rotor_speeds, drv.dt, drv.disturbance)
    /\ hist' = Append(hist, Call("update_dynamics",
                                 [tick |-> drv.k, rotor_speeds |-> drv.base_rotor_speeds,
                                  dt |-> drv.dt, disturbance |-> drv.disturbance],
                                 "returned", uav'.state))
    /\ drv' = [drv EXCEPT !.pc = DrvAfter("update_dynamics")]
    /\ UNCHANGED <<observer, fdi, held>>

\* thrust_dir = uav.get_thrust_direction() (line 53)
DrvGetThrustDirection ==
    /\ drv.pc = "get_thrust_direction"
    /\ hist' = Append(hist, Call("get_thrust_direction", [tick |-> drv.k],
                                 "returned", GetThrustDirection(uav)))
    /\ drv' = [drv EXCEPT !.thrust_dir = GetThrustDirection(uav),
                          !.pc = DrvAfter("get_thrust_direction")]
    /\ UNCHANGED <<uav, observer, fdi, held>>

\* total_thrust = uav.compute_total_thrust(base_rotor_speeds) (line 54)
DrvComputeTotalThrust ==
    /\ drv.pc = "compute_total_thrust"
    /\ hist' = Append(hist, Call("compute_total_thrust",
                                 [tick |-> drv.k, rotor_speeds |-> drv.base_rotor_speeds],
                                 "returned", <<ComputeTotalThrust(uav, drv.base_rotor_speeds)>>))
    /\ drv' = [drv EXCEPT !.total_thrust = ComputeTotalThrust(uav, drv.base_rotor_speeds),
                          !.pc = DrvAfter("compute_total_thrust")]
    /\ UNCHANGED <<uav, observer, fdi, held>>

\* est_disturbance = observer.update(state, thrust_dir, total_thrust, dt) (line 55)
DrvObserverUpdate ==
    /\ drv.pc = "observer_update"
    /\ observer' = ObserverUpdate(observer, uav.state, drv.thrust_dir, drv.total_thrust, drv.dt)
    /\ hist' = Append(hist, Call("observer_update",
                                 [tick |-> drv.k, state |-> uav.state,
                                  thrust_direction |-> drv.thrust_dir,
                                  total_thrust |-> drv.total_thrust, dt |-> drv.dt],
                                 "returned", observer'.estimated_disturbance))
    /\ drv' = [drv EXCEPT !.pc = DrvAfter("observer_update")]
    /\ UNCHANGED <<uav, fdi, held>>

\* states.append(state.copy()); disturbances.append(est_disturbance.copy())
\* (lines 58-59)
DrvStore ==
    /\ drv.pc = "store"
    /\ drv' = [drv EXCEPT !.states = Append(@, uav.state),
                          !.disturbances = Append(@, observer.estimated_disturbance),
                          !.pc = DrvAfter("store")]
    /\ UNCHANGED <<uav, observer, fdi, hist, held>>

NextDriver ==
    \/ DrvFor
    \/ DrvUpdateDynamics
    \/ DrvGetThrustDirection
    \/ DrvComputeTotalThrust
    \/ DrvObserverUpdate
    \/ DrvStore

SpecDriver == InitDriver /\ [][NextDriver]_vars

----------------------------------------------------------------------------
(* Properties of run_simulation (under SpecDriver) *)

TickPattern ==
    <<"update_dynamics", "get_thrust_direction", "compute_total_thrust", "observer_update">>

\* C5: in every tick the driver calls update_dynamics, then
\* get_thrust_direction and compute_total_thrust, then the observer's update,
\* once each; the observer update of tick k receives the state returned by
\* the update_dynamics of tick k; one record of state and estimate is
\* appended per tick, and times, states and disturbances have one length.
C5_TickOrderAndRecords ==
    /\ \A i \in DOMAIN hist :
          /\ hist[i].op = TickPattern[((i - 1) % 4) + 1]
          /\ hist[i].args.tick = ((i - 1) \div 4) + 1
          /\ hist[i].op = "observer_update" =>
                /\ i >= 4
                /\ hist[i - 3].op = "update_dynamics"
                /\ hist[i - 3].args.tick = hist[i].args.tick
                /\ hist[i].args.state = hist[i - 3].ret
    /\ Len(drv.states) = Len(drv.disturbances)
    /\ drv.pc = "for" => /\ Len(hist) = 4 * drv.k
                         /\ Len(drv.states) = drv.k
    /\ drv.pc \notin {"for", "done"} => Len(drv.states) = drv.k - 1
    /\ \A j \in DOMAIN drv.states :
          /\ drv.states[j] = hist[4 * j - 3].ret
          /\ drv.disturbances[j] = hist[4 * j].ret
    /\ drv.pc = "done" =>
          /\ Len(hist) = 4 * drv.time_steps
          /\ Len(drv.result.times) = drv.time_steps
          /\ Len(drv.result.states) = drv.time_steps
          /\ Len(drv.result.disturbances) = drv.time_steps

\* A run of two ticks has returned; the wind blew in the second tick only.
C5_Witness ==
    /\ drv.pc = "done"
    /\ Len(drv.result.states) = 2
    /\ hist[1].args.disturbance = Zeros(3)
    /\ hist[5].args.disturbance # Zeros(3)
    /\ hist[8].args.state = hist[5].ret
    /\ hist[8].args.state # hist[5].state_before

============================================================================
